---- MODULE Spec2Model ----
(***************************************************************************)
(* pybitEV (pybit/__init__.py): the REST request executor                  *)
(* HTTP._submit_request with its retry loop, the bulk helper               *)
(* HTTP._sem_gather, and the streaming session WebSocket.run_forever with  *)
(* its handler registry.                                                   *)
(*                                                                         *)
(* Three specifications share the module's variables:                      *)
(*   Spec      one HTTP executor running _submit_request calls             *)
(*   SpecBulk  one _sem_gather of K calls under a BoundedSemaphore(n)      *)
(*   SpecWS    one WebSocket session driven by run_forever                 *)
(* Each keeps the other two parts' variables at their idle values.         *)
(***************************************************************************)
EXTENDS Integers, Sequences, FiniteSets, TLC

VARIABLES
    \* ---- HTTP executor (self) and one _submit_request call ----
    http,               \* self: api_key, api_secret, recv_window, force_retry,
                        \*       max_retries, retry_delay, retry_codes, ignore_codes
    headers,            \* self.headers: the value under 'Content-Type'
    auth,               \* the call's auth argument
    method,             \* the call's method argument
    path,               \* the call's path: query strings appended to the
                        \*       endpoint path the caller passed
    query,              \* the call's query argument (a dict or None)
    req_params,         \* the parameters of the request being transmitted
    wire,               \* how and with which spelling they are transmitted
    pc,                 \* position of the call's coroutine
    retries_attempted,  \* local of _submit_request
    recv_window,        \* local of _submit_request
    s_json,             \* the last response the call received
    err_delay,          \* argument of the last asyncio.sleep of the call
    raised,             \* the exception that left _submit_request
    returned,           \* the envelope _submit_request returned
    sent,               \* history: session.request calls made by this call
    recvd,              \* history: responses (or transport failures) received
    slept,              \* history: asyncio.sleep calls made by this call
    onlyRetryable,      \* history: every response so far carried a retry code
    skews,              \* history: 10002 responses retried by this call
    \* ---- bulk dispatch (_sem_gather) ----
    bulk,               \* n (max_in_parallel), K (number of calls)
    sem,                \* BoundedSemaphore._value
    tpc,                \* position of each sem_task
    tleft,              \* attempts each wrapped call still has
    tresult,            \* what each wrapped call returned
    gathered,           \* what asyncio.gather handed back
    finished,           \* history: the order in which the calls completed
    \* ---- streaming session (WebSocket) ----
    ws,                 \* the session record, see WSInit
    \* ---- spot topic names (WebSocket.spot_topic) ----
    st                  \* a spot public stream: its subscription, its messages

httpVars == <<http, headers, auth, method, path, query, req_params, wire, skews,
              pc, retries_attempted, recv_window, s_json, err_delay, raised,
              returned, sent, recvd, slept, onlyRetryable>>
bulkVars == <<bulk, sem, tpc, tleft, tresult, gathered, finished>>
wsVars   == <<ws, st>>
vars     == <<httpVars, bulkVars, wsVars>>

(***************************************************************************)
(* Bounds of the model.                                                    *)
(***************************************************************************)
MaxRetriesBound == 2      \* max_retries ranges over 0..MaxRetriesBound

(***************************************************************************)
(* HTTP executor                                                           *)
(***************************************************************************)

None == "None"

\* HTTP.__init__: the default whitelist of retryable ret_codes.
DefaultRetryCodes == {10002, 10006, 10016, 30034, 30035, 130035, 130150}

\* HTTP.__init__ defaults.
DefaultRecvWindow == 5000
DefaultRetryDelay == 3

\* _submit_request: the recv_window increment on ret_code 10002.
RecvWindowStep == 2500

\* ret_codes the modelled venue answers with: success, skew, rate limit, a
\* generic retryable code, and two codes outside the default whitelist.
RetCodes == {0, 10002, 10006, 10016, 20001, 33004}

\* ignore_codes the executor may be constructed with ({} is the default).
IgnoreCodeSets == {{}, {20001}, {20001, 10016}}

\* int(limit_reset) - int(time.time()) for the reset timestamps the venue sends.
ResetDeltas == {0, 1}

NoResponse == [kind |-> "none", ret_code |-> 0, has_reset |-> FALSE, reset |-> 0]

JsonResponses ==
    {[kind |-> "json", ret_code |-> c, has_reset |-> FALSE, reset |-> 0] : c \in RetCodes}
    \cup {[kind |-> "json", ret_code |-> 10006, has_reset |-> TRUE, reset |-> d] :
            d \in ResetDeltas}

NoError == [type |-> "none", status_code |-> 0]

\* Values of request parameters: a str, an int, a float with a whole value,
\* a bool, None, or the hex digest of an HMAC over a signed string (kept as
\* the set of its key=value parts, <<key, text>>).
Str(x) == [t |-> "str", s |-> x, n |-> 0, over |-> {}]
Num(x) == [t |-> "int", s |-> "", n |-> x, over |-> {}]
Float(x) == [t |-> "float", s |-> "", n |-> x, over |-> {}]
Bool(b) == [t |-> "bool", s |-> "", n |-> IF b THEN 1 ELSE 0, over |-> {}]
Null == [t |-> "null", s |-> "", n |-> 0, over |-> {}]
Digest(signed) == [t |-> "digest", s |-> "", n |-> 0, over |-> signed]

\* The query argument: None, or a dict.
QueryNone == [none |-> TRUE, items |-> <<>>]
Dict(items) == [none |-> FALSE, items |-> items]

\* The query arguments the endpoint methods pass.
QueryKinds ==
    {"none", "empty", "symbol", "null_field", "whole_float", "bool_field"}
QueryOf(kind) ==
    CASE kind = "none" -> QueryNone
      [] kind = "empty" -> Dict(<<>>)
      [] kind = "symbol" -> Dict("symbol" :> Str("BTCUSD"))
      [] kind = "null_field" -> Dict(("symbol" :> Str("BTCUSD")) @@ ("price" :> Null))
      [] kind = "whole_float" -> Dict(("symbol" :> Str("BTCUSD")) @@ ("qty" :> Float(1)))
      [] kind = "bool_field" ->
            Dict(("symbol" :> Str("BTCUSD")) @@ ("reduce_only" :> Bool(TRUE)))

\* The methods the endpoint functions pass; DELETE is used on spot only.
Methods == {"GET", "POST", "DELETE"}
MethodAllowed(m) == m = "DELETE" => http.contract_type = "spot"

\* str(v), as the signed string and the spot query string spell a value.
PyStr(v) ==
    CASE v.t = "str" -> v.s
      [] v.t = "int" -> ToString(v.n)
      [] v.t = "float" -> ToString(v.n) \o ".0"
      [] v.t = "bool" -> (IF v.n = 1 THEN "True" ELSE "False")
      [] v.t = "null" -> "None"
      [] v.t = "digest" -> "hexdigest"

\* The spelling of a value in a JSON body (quotes left out).
JsonText(v) ==
    IF v.t = "bool" THEN (IF v.n = 1 THEN "true" ELSE "false") ELSE PyStr(v)

\* _val.replace('True', 'true').replace('False', 'false'), on the texts of
\* the model (no other text of the model contains True or False).
LowerBooleans(text) ==
    IF text = "True" THEN "true" ELSE IF text = "False" THEN "false" ELSE text

\* HTTP._auth: the string that is signed: key=value for every parameter but
\* sign and those whose value is None, booleans in lower case for POST.
SignedString(q) ==
    {<<k, IF method = "POST" THEN LowerBooleans(PyStr(q.items[k]))
                             ELSE PyStr(q.items[k])>> :
        k \in {j \in DOMAIN q.items : j # "sign" /\ q.items[j].t # "null"}}

\* Readings of time.time() in milliseconds.
Clock == {1000, 1001}

\* _submit_request: floats with a whole value become ints.
WholeFloatsToInts(q) ==
    IF q.none THEN q
    ELSE Dict([k \in DOMAIN q.items |->
                  IF q.items[k].t = "float" THEN Num(q.items[k].n) ELSE q.items[k]])

\* AuthParams as it would be if _auth wrote the configured recv_window.
AuthParamsConfiguredWindow(q, rw, now) ==
    Dict(("api_key" :> Str(http.api_key)) @@ ("recv_window" :> Num(http.recv_window))
            @@ ("timestamp" :> Num(now)) @@ q.items)

\* HTTP._auth: api_key, recv_window and timestamp are written into params.
AuthParams(q, rw, now) ==
    Dict(("api_key" :> Str(http.api_key)) @@ ("recv_window" :> Num(rw))
            @@ ("timestamp" :> Num(now)) @@ q.items)

\* Signature as it would be if a signature already in the params were kept.
SignatureKeptFromBefore(q) ==
    IF "sign" \in DOMAIN q.items THEN q.items["sign"] ELSE Digest(SignedString(q))

\* HTTP._auth: the hex digest of the HMAC over the signed string.
Signature(q) ==
    Digest(SignedString(q))

\* The signing step as it would be if the signature were not appended.
SignedWithoutSign(q, rw, now) ==
    AuthParams(q, rw, now)

\* The signing step of _submit_request: _auth, then the sorted dict with
\* the signature under sign (a dict is modelled without its key order).
Signed(q, rw, now) ==
    LET p == AuthParams(q, rw, now)
    IN Dict(("sign" :> Signature(p)) @@ p.items)

\* What session.request transmits: req_params as params for GET; on spot,
\* str(k)=str(v) of the non-None entries of query appended to the path;
\* else req_params as the JSON body.
Wire(q, rp) ==
    IF method = "GET"
    THEN [style |-> "params", pairs |-> {<<k, PyStr(rp[k])>> : k \in DOMAIN rp}]
    ELSE IF http.contract_type = "spot"
    THEN [style |-> "url",
          pairs |-> IF q.none THEN {}
                    ELSE {<<k, PyStr(q.items[k])>> :
                            k \in {j \in DOMAIN q.items : q.items[j].t # "null"}}]
    ELSE [style |-> "json", pairs |-> {<<k, JsonText(rp[k])>> : k \in DOMAIN rp}]

\* self.headers['Content-Type'] as __init__ sets it, and as a request with a
\* JSON body sets it.
FormUrlEncoded == "application/x-www-form-urlencoded"
ApplicationJson == "application/json"

\* r = {'headers': self.headers}: the request's headers are the executor's
\* dict itself, so r['headers']['Content-Type'] = 'application/json' (any
\* method but GET, any contract type but spot) is an assignment to it.
HeadersOfRequest(h) ==
    IF method # "GET" /\ http.contract_type # "spot" THEN ApplicationJson ELSE h

\* path += f"?{full_param_str}" (any method but GET, on spot): one more
\* query string on the path the call holds.
PathOfRequest(n) ==
    IF method # "GET" /\ http.contract_type = "spot" THEN n + 1 ELSE n

\* Nothing has been transmitted.
NoWire == [style |-> "none", pairs |-> {}]

\* req_params: the entries of query whose value is not None, or {}.
RequestParams(q) ==
    IF q.none THEN <<>>
    ELSE [k \in {j \in DOMAIN q.items : q.items[j].t # "null"} |-> q.items[k]]

FailedRequestError(code) == [type |-> "FailedRequestError", status_code |-> code]

InvalidRequestError(code) == [type |-> "InvalidRequestError", status_code |-> code]

Exception(name) == [type |-> name, status_code |-> 0]

\* set_contract_type: spot, or one of the derivatives segments.
ContractTypesHTTP == {"spot", "linear"}

\* HTTP.__init__
HTTPInit ==
    /\ http \in [api_key : {None, "key"}, api_secret : {None, "secret"},
                 recv_window : {DefaultRecvWindow}, force_retry : BOOLEAN,
                 max_retries : 0..MaxRetriesBound, retry_delay : {DefaultRetryDelay},
                 retry_codes : {DefaultRetryCodes}, ignore_codes : IgnoreCodeSets,
                 contract_type : ContractTypesHTTP]
    /\ headers = FormUrlEncoded
    /\ auth = FALSE
    /\ method = "GET"
    /\ path = 0
    /\ query = QueryNone
    /\ req_params = <<>>
    /\ wire = NoWire
    /\ skews = 0
    /\ pc = "idle"
    /\ retries_attempted = 0
    /\ recv_window = 0
    /\ s_json = NoResponse
    /\ err_delay = 0
    /\ raised = NoError
    /\ returned = NoResponse
    /\ sent = 0
    /\ recvd = 0
    /\ slept = 0
    /\ onlyRetryable = TRUE

HTTPIdle ==
    /\ http = [api_key |-> None, api_secret |-> None,
               recv_window |-> DefaultRecvWindow, force_retry |-> FALSE,
               max_retries |-> 0, retry_delay |-> DefaultRetryDelay,
               retry_codes |-> DefaultRetryCodes, ignore_codes |-> {},
               contract_type |-> "linear"]
    /\ headers = FormUrlEncoded
    /\ auth = FALSE
    /\ method = "GET"
    /\ path = 0
    /\ query = QueryNone
    /\ req_params = <<>>
    /\ wire = NoWire
    /\ skews = 0
    /\ pc = "idle"
    /\ retries_attempted = 0
    /\ recv_window = 0
    /\ s_json = NoResponse
    /\ err_delay = 0
    /\ raised = NoError
    /\ returned = NoResponse
    /\ sent = 0
    /\ recvd = 0
    /\ slept = 0
    /\ onlyRetryable = TRUE

\* ret_code classification of _submit_request.
IsRetryable(code) == code # 0 /\ code \in http.retry_codes

IsIgnorable(code) == code # 0 /\ code \notin http.retry_codes /\ code \in http.ignore_codes

IsFatal(code) == code # 0 /\ code \notin http.retry_codes /\ code \notin http.ignore_codes

\* SubmitRequest as it would be if recv_window lived on from call to call.
SubmitRequestKeepingWindow ==
    /\ pc \in {"idle", "returned", "raised"}
    /\ \E a \in BOOLEAN : auth' = a
    /\ \E m \in Methods : MethodAllowed(m) /\ method' = m
    /\ path' = 0
    /\ \E k \in QueryKinds : query' = WholeFloatsToInts(QueryOf(k))
    /\ req_params' = <<>>
    /\ wire' = NoWire
    /\ skews' = 0
    /\ recv_window' = (IF pc = "idle" THEN http.recv_window ELSE recv_window)
    /\ retries_attempted' = http.max_retries
    /\ pc' = "loop"
    /\ s_json' = NoResponse
    /\ err_delay' = 0
    /\ raised' = NoError
    /\ returned' = NoResponse
    /\ sent' = 0
    /\ recvd' = 0
    /\ slept' = 0
    /\ onlyRetryable' = TRUE
    /\ UNCHANGED <<http, headers, bulkVars, wsVars>>

\* _submit_request entry: the caller starts a call (a finished executor is
\* reused); the locals before the while loop.
SubmitRequest ==
    /\ pc \in {"idle", "returned", "raised"}
    /\ \E a \in BOOLEAN : auth' = a
    /\ \E m \in Methods : MethodAllowed(m) /\ method' = m
    /\ path' = 0
    /\ \E k \in QueryKinds : query' = WholeFloatsToInts(QueryOf(k))
    /\ req_params' = <<>>
    /\ wire' = NoWire
    /\ skews' = 0
    /\ recv_window' = http.recv_window
    /\ retries_attempted' = http.max_retries
    /\ pc' = "loop"
    /\ s_json' = NoResponse
    /\ err_delay' = 0
    /\ raised' = NoError
    /\ returned' = NoResponse
    /\ sent' = 0
    /\ recvd' = 0
    /\ slept' = 0
    /\ onlyRetryable' = TRUE
    /\ UNCHANGED <<http, headers, bulkVars, wsVars>>

\* HTTP._auth: the credentials check.
AuthHasKeys == http.api_key # None /\ http.api_secret # None

\* Top of the while loop: the attempt budget is spent.
RetriesExceeded ==
    /\ pc = "loop"
    /\ retries_attempted - 1 < 0
    /\ retries_attempted' = retries_attempted - 1
    /\ raised' = FailedRequestError(400)
    /\ pc' = "raised"
    /\ UNCHANGED <<http, headers, auth, method, path, query, req_params, wire,
                   skews, recv_window, s_json, err_delay, returned, sent,
                   recvd, slept, onlyRetryable, bulkVars, wsVars>>

\* Top of the while loop, auth=True: _auth raises PermissionError.
AuthMissingKeys ==
    /\ pc = "loop"
    /\ retries_attempted - 1 >= 0
    /\ auth /\ ~AuthHasKeys
    /\ retries_attempted' = retries_attempted - 1
    /\ raised' = Exception("PermissionError")
    /\ pc' = "raised"
    /\ UNCHANGED <<http, headers, auth, method, path, query, req_params, wire,
                   skews, recv_window, s_json, err_delay, returned, sent,
                   recvd, slept, onlyRetryable, bulkVars, wsVars>>

\* Top of the while loop, auth=True with query None: _auth assigns
\* params['api_key'] on None, which raises TypeError.
AuthNoQuery ==
    /\ pc = "loop"
    /\ retries_attempted - 1 >= 0
    /\ auth /\ AuthHasKeys /\ query.none
    /\ retries_attempted' = retries_attempted - 1
    /\ raised' = Exception("TypeError")
    /\ pc' = "raised"
    /\ UNCHANGED <<http, headers, auth, method, path, query, req_params, wire,
                   skews, recv_window, s_json, err_delay, returned, sent,
                   recvd, slept, onlyRetryable, bulkVars, wsVars>>

\* Top of the while loop: sign if auth, build the request, session.request(...).
Transmit ==
    /\ pc = "loop"
    /\ retries_attempted - 1 >= 0
    /\ auth => AuthHasKeys /\ ~query.none
    /\ retries_attempted' = retries_attempted - 1
    /\ \E now \in Clock :
        LET q == IF auth THEN Signed(query, recv_window, now) ELSE query
        IN /\ query' = q
           /\ req_params' = RequestParams(q)
           /\ wire' = Wire(q, RequestParams(q))
    /\ headers' = HeadersOfRequest(headers)
    /\ path' = PathOfRequest(path)
    /\ sent' = sent + 1
    /\ pc' = "request"
    /\ UNCHANGED <<http, auth, method, skews, recv_window, s_json, err_delay,
                   raised, returned, recvd, slept, onlyRetryable, bulkVars,
                   wsVars>>

\* RecvConnError as it would be if the error were raised whatever
\* force_retry is.
RecvConnErrorRaising ==
    /\ pc = "request"
    /\ s_json' = [NoResponse EXCEPT !.kind = "conn_error"]
    /\ recvd' = recvd + 1
    /\ onlyRetryable' = FALSE
    /\ IF FALSE
       THEN /\ err_delay' = http.retry_delay
            /\ slept' = slept + 1
            /\ pc' = "sleep"
            /\ UNCHANGED raised
       ELSE /\ raised' = Exception("ClientConnectionError")
            /\ pc' = "raised"
            /\ UNCHANGED <<err_delay, slept>>
    /\ UNCHANGED <<http, headers, auth, method, path, query, req_params, wire,
                   skews, retries_attempted, recv_window, returned, sent,
                   bulkVars, wsVars>>

\* except (ClientConnectorError, ServerConnectionError)
RecvConnError ==
    /\ pc = "request"
    /\ s_json' = [NoResponse EXCEPT !.kind = "conn_error"]
    /\ recvd' = recvd + 1
    /\ onlyRetryable' = FALSE
    /\ IF http.force_retry
       THEN /\ err_delay' = http.retry_delay
            /\ slept' = slept + 1
            /\ pc' = "sleep"
            /\ UNCHANGED raised
       ELSE /\ raised' = Exception("ClientConnectionError")
            /\ pc' = "raised"
            /\ UNCHANGED <<err_delay, slept>>
    /\ UNCHANGED <<http, headers, auth, method, path, query, req_params, wire,
                   skews, retries_attempted, recv_window, returned, sent,
                   bulkVars, wsVars>>

\* RecvDecodeError as it would be if the call retried whatever
\* force_retry is.
RecvDecodeErrorRetried ==
    /\ pc = "request"
    /\ s_json' = [NoResponse EXCEPT !.kind = "decode_error"]
    /\ recvd' = recvd + 1
    /\ onlyRetryable' = FALSE
    /\ IF TRUE
       THEN /\ err_delay' = http.retry_delay
            /\ slept' = slept + 1
            /\ pc' = "sleep"
            /\ UNCHANGED raised
       ELSE /\ raised' = FailedRequestError(409)
            /\ pc' = "raised"
            /\ UNCHANGED <<err_delay, slept>>
    /\ UNCHANGED <<http, headers, auth, method, path, query, req_params, wire,
                   skews, retries_attempted, recv_window, returned, sent,
                   bulkVars, wsVars>>

\* except ContentTypeError around s.json()
RecvDecodeError ==
    /\ pc = "request"
    /\ s_json' = [NoResponse EXCEPT !.kind = "decode_error"]
    /\ recvd' = recvd + 1
    /\ onlyRetryable' = FALSE
    /\ IF http.force_retry
       THEN /\ err_delay' = http.retry_delay
            /\ slept' = slept + 1
            /\ pc' = "sleep"
            /\ UNCHANGED raised
       ELSE /\ raised' = FailedRequestError(409)
            /\ pc' = "raised"
            /\ UNCHANGED <<err_delay, slept>>
    /\ UNCHANGED <<http, headers, auth, method, path, query, req_params, wire,
                   skews, retries_attempted, recv_window, returned, sent,
                   bulkVars, wsVars>>

\* ret_code == 0: return s_json
RecvSuccess ==
    /\ pc = "request"
    /\ \E r \in JsonResponses :
        /\ r.ret_code = 0
        /\ s_json' = r
        /\ returned' = r
    /\ recvd' = recvd + 1
    /\ onlyRetryable' = FALSE
    /\ pc' = "returned"
    /\ UNCHANGED <<http, headers, auth, method, path, query, req_params, wire,
                   skews, retries_attempted, recv_window, err_delay, raised,
                   sent, slept, bulkVars, wsVars>>

\* ret_code in self.retry_codes
RecvRetryable ==
    /\ pc = "request"
    /\ \E r \in JsonResponses :
        /\ IsRetryable(r.ret_code)
        /\ s_json' = r
        /\ IF r.ret_code = 10002
           THEN \* recv_window += 2500, sleep the default delay
                /\ recv_window' = recv_window + RecvWindowStep
                /\ skews' = skews + 1
                /\ err_delay' = http.retry_delay
                /\ slept' = slept + 1
                /\ pc' = "sleep"
                /\ UNCHANGED raised
           ELSE IF r.ret_code = 10006
           THEN IF r.has_reset
                THEN \* err_delay = int(limit_reset) - int(time.time())
                     /\ err_delay' = r.reset
                     /\ slept' = slept + 1
                     /\ pc' = "sleep"
                     /\ UNCHANGED <<raised, recv_window, skews>>
                ELSE \* s_json['rate_limit_reset_ms'] on a body without the key
                     /\ raised' = Exception("KeyError")
                     /\ pc' = "raised"
                     /\ UNCHANGED <<err_delay, slept, recv_window, skews>>
           ELSE /\ err_delay' = http.retry_delay
                /\ slept' = slept + 1
                /\ pc' = "sleep"
                /\ UNCHANGED <<raised, recv_window, skews>>
    /\ recvd' = recvd + 1
    /\ UNCHANGED <<http, headers, auth, method, path, query, req_params, wire,
                   retries_attempted, returned, sent, onlyRetryable, bulkVars,
                   wsVars>>

\* ret_code in self.ignore_codes: pass, and the while loop goes round again
RecvIgnorable ==
    /\ pc = "request"
    /\ \E r \in JsonResponses :
        /\ IsIgnorable(r.ret_code)
        /\ s_json' = r
    /\ recvd' = recvd + 1
    /\ onlyRetryable' = FALSE
    /\ pc' = "loop"
    /\ UNCHANGED <<http, headers, auth, method, path, query, req_params, wire,
                   skews, retries_attempted, recv_window, err_delay, raised,
                   returned, sent, slept, bulkVars, wsVars>>

\* RecvFatal as it would be if the final else branch slept and retried.
RecvFatalRetried ==
    /\ pc = "request"
    /\ \E r \in JsonResponses :
        /\ IsFatal(r.ret_code)
        /\ s_json' = r
    /\ recvd' = recvd + 1
    /\ onlyRetryable' = FALSE
    /\ err_delay' = http.retry_delay
    /\ slept' = slept + 1
    /\ pc' = "sleep"
    /\ UNCHANGED <<http, headers, auth, method, path, query, req_params, wire,
                   skews, retries_attempted, recv_window, raised, returned,
                   sent, bulkVars, wsVars>>

\* any other nonzero ret_code: raise InvalidRequestError
RecvFatal ==
    /\ pc = "request"
    /\ \E r \in JsonResponses :
        /\ IsFatal(r.ret_code)
        /\ s_json' = r
        /\ raised' = InvalidRequestError(r.ret_code)
    /\ recvd' = recvd + 1
    /\ onlyRetryable' = FALSE
    /\ pc' = "raised"
    /\ UNCHANGED <<http, headers, auth, method, path, query, req_params, wire,
                   skews, retries_attempted, recv_window, err_delay, returned,
                   sent, slept, bulkVars, wsVars>>

\* await asyncio.sleep(...) returns; continue
SleepDone ==
    /\ pc = "sleep"
    /\ pc' = "loop"
    /\ UNCHANGED <<http, headers, auth, method, path, query, req_params, wire,
                   skews, retries_attempted, recv_window, s_json, err_delay,
                   raised, returned, sent, recvd, slept, onlyRetryable,
                   bulkVars, wsVars>>

(***************************************************************************)
(* Properties of _submit_request, checked under Spec.                      *)
(***************************************************************************)

\* C1: after a response whose ret_code is in the retryable set the call sleeps
\* and goes round the loop (it is sleeping, at the loop top, or transmitting
\* again), the only exception that may end it being retries-exceeded; and one
\* call never makes more than max_retries + 1 transmissions.
C1_RetryableNeverRaises ==
    /\ (s_json.kind = "json" /\ IsRetryable(s_json.ret_code)) =>
          \/ pc \in {"sleep", "loop", "request"}
          \/ pc = "raised" /\ raised = FailedRequestError(400)
    /\ sent <= http.max_retries + 1

\* C2: when every response carried a retryable code, the retries-exceeded
\* error is raised after exactly max_retries + 1 transmissions.
C2_ExactlyMaxRetriesPlusOne ==
    (pc = "raised" /\ raised = FailedRequestError(400) /\ onlyRetryable /\ recvd > 0)
        => sent = http.max_retries + 1

\* C3: a response whose nonzero ret_code is ignorable (and not retryable) is
\* returned to the caller, with no exception and no further transmission.
C3_IgnorableReturned ==
    (s_json.kind = "json" /\ IsIgnorable(s_json.ret_code))
        => (pc = "returned" /\ returned = s_json /\ raised = NoError /\ sent = recvd)

\* C4: a response whose nonzero ret_code is neither retryable nor ignorable
\* ends the call with InvalidRequestError carrying that code, with no
\* transmission and no sleep after it.
C4_FatalRaisesAtOnce ==
    (s_json.kind = "json" /\ IsFatal(s_json.ret_code))
        => /\ pc = "raised"
           /\ raised = InvalidRequestError(s_json.ret_code)
           /\ sent = recvd
           /\ slept < recvd

\* C4 witness: a fatal code answered the retry of an earlier attempt.
C4_Witness ==
    /\ pc = "raised"
    /\ raised.type = "InvalidRequestError"
    /\ IsFatal(s_json.ret_code)
    /\ recvd >= 2
    /\ slept >= 1

\* C5: a signed call on an executor without api_key or api_secret ends with
\* PermissionError and no transmission, whatever max_retries is.
C5_NoKeysPermissionError ==
    (auth /\ ~AuthHasKeys /\ pc \notin {"idle", "loop"})
        => (pc = "raised" /\ raised = Exception("PermissionError") /\ sent = 0)

\* The parameters every signed request has to carry.
SignedFields == {"api_key", "timestamp", "recv_window", "sign"}

\* C18: while a request of a signed call is in flight, its parameters hold
\* api_key, timestamp, recv_window and sign: the executor's key, the call's
\* current recv_window, and a signature that covers the other three.
C18_SignedRequestFields ==
    (pc = "request" /\ auth) =>
        /\ SignedFields \subseteq DOMAIN req_params
        /\ req_params["api_key"] = Str(http.api_key)
        /\ req_params["recv_window"] = Num(recv_window)
        /\ req_params["timestamp"].t = "int"
        /\ req_params["sign"].t = "digest"
        /\ SignedFields \ {"sign"}
              \subseteq {part[1] : part \in req_params["sign"].over}

\* C18 witness: the retry of a signed call is in flight, after a recv_window
\* error made the call's recv_window grow.
C18_Witness ==
    /\ pc = "request"
    /\ auth
    /\ sent = 2
    /\ recv_window = http.recv_window + RecvWindowStep
    /\ "sign" \in DOMAIN req_params

C20_RateLimitSleeps ==
    (s_json.kind = "json" /\ s_json.ret_code = 10006 /\ IsRetryable(10006)) =>
        /\ raised # Exception("KeyError")
        /\ pc = "sleep" =>
              err_delay = (IF s_json.has_reset THEN s_json.reset ELSE http.retry_delay)

PartsOfRequest ==
    {<<k, IF method = "POST" THEN LowerBooleans(PyStr(req_params[k]))
                             ELSE PyStr(req_params[k])>> :
        k \in DOMAIN req_params \ {"sign"}}

C23_SignedAsTransmitted ==
    (pc = "request" /\ auth /\ method # "GET") =>
        req_params["sign"].over = {part \in wire.pairs : part[1] # "sign"}

\* C24: after a response body that could not be decoded, with force_retry
\* the call sleeps retry_delay and goes on within its attempt budget, each
\* transmission having used up one attempt; without force_retry the call
\* has ended with FailedRequestError 409 and transmitted nothing more.
C24_DecodeFailure ==
    s_json.kind = "decode_error" =>
        IF http.force_retry
        THEN /\ \/ pc \in {"sleep", "loop", "request"}
                \/ pc = "raised" /\ raised = FailedRequestError(400)
             /\ pc = "sleep" => err_delay = http.retry_delay /\ raised = NoError
             /\ pc \in {"sleep", "request"} =>
                   retries_attempted = http.max_retries - sent
             /\ sent <= http.max_retries
        ELSE /\ pc = "raised"
             /\ raised = FailedRequestError(409)
             /\ sent = recvd

\* C24 witness: with force_retry the call sleeps after an undecodable body.
C24_Witness ==
    /\ s_json.kind = "decode_error"
    /\ http.force_retry
    /\ pc = "sleep"

\* C25: after a connection-level failure of the transport, with force_retry
\* the call sleeps retry_delay and goes on within its attempt budget, ending
\* with the retries-exceeded error when the budget is spent; without
\* force_retry the transport error has left the call, with no transmission
\* after the failed one.
C25_ConnectionFailure ==
    s_json.kind = "conn_error" =>
        IF http.force_retry
        THEN /\ \/ pc \in {"sleep", "loop", "request"}
                \/ pc = "raised" /\ raised = FailedRequestError(400)
             /\ pc = "sleep" => err_delay = http.retry_delay /\ raised = NoError
             /\ pc = "raised" => retries_attempted < 0
             /\ sent <= http.max_retries
        ELSE /\ pc = "raised"
             /\ raised = Exception("ClientConnectionError")
             /\ sent = recvd
             /\ recvd = 1 => sent = 1

\* C25 witness: with force_retry the connection kept failing and the call
\* ended with the retries-exceeded error.
C25_Witness ==
    /\ s_json.kind = "conn_error"
    /\ http.force_retry
    /\ pc = "raised"
    /\ raised = FailedRequestError(400)
    /\ sent = 2

\* C35: on spot, while a request with a method other than GET is in flight,
\* the URL is the endpoint path with one query string, that of this
\* attempt's parameters, whatever the number of the attempt.
C35_OneQueryStringInUrl ==
    (pc = "request" /\ http.contract_type = "spot" /\ method # "GET") =>
        /\ wire.style = "url"
        /\ path = 1

\* C38: a call that ended with the retries-exceeded error has transmitted
\* its request at least once.
C38_TransmittedBeforeGivingUp ==
    (pc = "raised" /\ raised = FailedRequestError(400)) => sent >= 1

\* C39: a signed call that was handed no parameter map, on an executor with
\* both credentials, does not end with the TypeError of signing an absent
\* map, before anything was transmitted.
C39_SignedWithoutParams ==
    (auth /\ AuthHasKeys /\ query.none /\ pc = "raised" /\ sent = 0) =>
        raised # Exception("TypeError")

\* C40: a GET request in flight carries the Content-Type the executor was
\* constructed with, whatever calls the executor has made before.
C40_DefaultHeadersKept ==
    (pc = "request" /\ method = "GET") => headers = FormUrlEncoded

(***************************************************************************)
(* Bulk dispatch: HTTP.place_active_order_bulk -> HTTP._sem_gather         *)
(*                                                                         *)
(* asyncio.gather wraps each sem_task coroutine in a task.  A sem_task     *)
(* enters `async with sem` (BoundedSemaphore.acquire), awaits the wrapped  *)
(* place_active_order call and releases the semaphore when it leaves the   *)
(* block, by return or by exception.  The wrapped call is _submit_request  *)
(* seen at its suspension points: the request in flight, the sleep between *)
(* attempts.  Which waiting sem_task the event loop resumes next is left   *)
(* open, so every wake-up order of every asyncio version is covered.       *)
(***************************************************************************)
MaxCalls == 3          \* K, the number of orders, ranges over 1..MaxCalls
MaxParallel == 2       \* max_in_parallel ranges over 1..MaxParallel
BulkMaxRetries == 2    \* max_retries of the executor in the bulk model

Calls == 1..bulk.K

NoResult == [order |-> 0, ret_code |-> -1]

BulkIdle ==
    /\ bulk = [n |-> 0, K |-> 0]
    /\ sem = 0
    /\ tpc = <<>>
    /\ tleft = <<>>
    /\ tresult = <<>>
    /\ gathered = [state |-> "pending", value |-> <<>>]
    /\ finished = <<>>

\* place_active_order_bulk(orders, max_in_parallel): sem = BoundedSemaphore(n),
\* one sem_task per order, none of them run yet.
BulkInit ==
    /\ bulk \in [n : 1..MaxParallel, K : 1..MaxCalls]
    /\ sem = bulk.n
    /\ tpc = [i \in 1..bulk.K |-> "created"]
    /\ tleft = [i \in 1..bulk.K |-> BulkMaxRetries]
    /\ tresult = [i \in 1..bulk.K |-> NoResult]
    /\ gathered = [state |-> "pending", value |-> <<>>]
    /\ finished = <<>>

\* A call is in flight from the moment its sem_task holds the semaphore until
\* it leaves the `async with` block; sleeping between attempts counts.
InFlight(i) == tpc[i] \in {"request", "sleep"}

\* BoundedSemaphore.acquire as it would be if it never blocked.
SemAcquireUnguarded(i) ==
    /\ tpc[i] = "created"
    /\ sem' = sem - 1
    /\ tleft' = [tleft EXCEPT ![i] = tleft[i] - 1]
    /\ tpc' = [tpc EXCEPT ![i] = "request"]
    /\ UNCHANGED <<bulk, tresult, gathered, finished, httpVars, wsVars>>

\* sem_task: `async with sem` succeeds and `await task` runs the call up to
\* its first session.request.
SemAcquire(i) ==
    /\ tpc[i] = "created"
    /\ sem > 0
    /\ sem' = sem - 1
    /\ tleft' = [tleft EXCEPT ![i] = tleft[i] - 1]
    /\ tpc' = [tpc EXCEPT ![i] = "request"]
    /\ UNCHANGED <<bulk, tresult, gathered, finished, httpVars, wsVars>>

\* The call got ret_code 0: it returns, sem_task releases and returns.
TaskReturn(i) ==
    /\ tpc[i] = "request"
    /\ tresult' = [tresult EXCEPT ![i] = [order |-> i, ret_code |-> 0]]
    /\ tpc' = [tpc EXCEPT ![i] = "done"]
    /\ sem' = sem + 1
    /\ finished' = Append(finished, i)
    /\ UNCHANGED <<bulk, tleft, gathered, httpVars, wsVars>>

\* The call got a retryable ret_code: it sleeps, still inside `async with`.
TaskRetry(i) ==
    /\ tpc[i] = "request"
    /\ tpc' = [tpc EXCEPT ![i] = "sleep"]
    /\ UNCHANGED <<bulk, sem, tleft, tresult, gathered, finished, httpVars, wsVars>>

\* The sleep is over and attempts remain: the call transmits again.
TaskResend(i) ==
    /\ tpc[i] = "sleep"
    /\ tleft[i] - 1 >= 0
    /\ tleft' = [tleft EXCEPT ![i] = tleft[i] - 1]
    /\ tpc' = [tpc EXCEPT ![i] = "request"]
    /\ UNCHANGED <<bulk, sem, tresult, gathered, finished, httpVars, wsVars>>

\* The call raises (a fatal ret_code, or the attempts are spent after a
\* sleep): sem_task releases, and gather hands the first exception to its
\* awaiter while the other sem_tasks keep running.
TaskRaise(i) ==
    /\ \/ tpc[i] = "request"
       \/ tpc[i] = "sleep" /\ tleft[i] - 1 < 0
    /\ tpc' = [tpc EXCEPT ![i] = "failed"]
    /\ sem' = sem + 1
    /\ finished' = Append(finished, i)
    /\ gathered' = IF gathered.state = "pending"
                   THEN [state |-> "raised", value |-> <<>>]
                   ELSE gathered
    /\ UNCHANGED <<bulk, tleft, tresult, httpVars, wsVars>>

\* asyncio.gather as it would be if it listed results as the calls complete.
GatherInCompletionOrder ==
    /\ gathered.state = "pending"
    /\ \A i \in Calls : tpc[i] = "done"
    /\ gathered' = [state |-> "returned",
                    value |-> [k \in 1..bulk.K |-> tresult[finished[k]]]]
    /\ UNCHANGED <<bulk, sem, tpc, tleft, tresult, finished, httpVars, wsVars>>

\* Every sem_task returned: gather returns the results in the order of its
\* arguments, and place_active_order_bulk returns [r for r in res].
GatherReturn ==
    /\ gathered.state = "pending"
    /\ \A i \in Calls : tpc[i] = "done"
    /\ gathered' = [state |-> "returned", value |-> [i \in 1..bulk.K |-> tresult[i]]]
    /\ UNCHANGED <<bulk, sem, tpc, tleft, tresult, finished, httpVars, wsVars>>

BulkNext ==
    \/ \E i \in Calls : SemAcquire(i)
    \/ \E i \in Calls : TaskReturn(i)
    \/ \E i \in Calls : TaskRetry(i)
    \/ \E i \in Calls : TaskResend(i)
    \/ \E i \in Calls : TaskRaise(i)
    \/ GatherReturn

\* C6: at most max_in_parallel calls of a bulk dispatch are in flight at once.
C6_AtMostNInFlight ==
    Cardinality({i \in Calls : InFlight(i)}) <= bulk.n

\* C6 witness: more calls than permits, every permit taken, one holder asleep
\* between attempts and another call still waiting for the semaphore.
C6_Witness ==
    /\ bulk.n < bulk.K
    /\ Cardinality({i \in Calls : InFlight(i)}) = bulk.n
    /\ \E i \in Calls : tpc[i] = "sleep"
    /\ \E i \in Calls : tpc[i] = "created"

\* C7: when all K calls succeed, element i of the returned list is the result
\* of the i-th submitted call, whatever the completion order.
C7_ResultsInSubmissionOrder ==
    gathered.state = "returned" =>
        /\ Len(gathered.value) = bulk.K
        /\ \A i \in Calls : gathered.value[i] = tresult[i] /\ gathered.value[i].order = i

\* C7 witness: the list was returned though the calls completed out of order.
C7_Witness ==
    /\ gathered.state = "returned"
    /\ bulk.K >= 2
    /\ \E k \in 1..Len(finished) : finished[k] # k

(***************************************************************************)
(* Streaming session: class WebSocket                                      *)
(*                                                                         *)
(* ws is the WebSocket object.  Its fields keep the source's names, with   *)
(* sock for self.ws and subscribed for self._subscribed; pc is the         *)
(* position of the run_forever coroutine (its suspension points), retries  *)
(* and subi are locals of _connect and _subscribe, pending holds the       *)
(* events of the frame being consumed, exc the exception in hand.          *)
(* History fields: bindings (what the caller's bind/unbind calls amount    *)
(* to), log (the steps taken since the last exception was caught),         *)
(* auth_ok (an auth success message arrived on the current socket) and     *)
(* heartbeats (the _heartbeat tasks that are alive).                       *)
(* In spot_public frames the topic is the canonical topic of the message.  *)
(***************************************************************************)
MaxSubscribed == 1     \* acknowledgement messages recorded per connection
MaxHeartbeats == 2     \* _heartbeat tasks alive at a time

\* _connect: retries = 10
ConnectRetries == 10

ContractTypes == {"derivatives", "spot_public", "spot_private"}

Topics == {"t1", "t2"}

\* On derivatives t2 stands for one of position, execution, order,
\* stop_order, wallet; the topics of spot_private are all private.
PrivateTopics == {"t2"}

IsPrivate(w, t) ==
    \/ w.contract_type = "spot_private"
    \/ w.contract_type = "derivatives" /\ t \in PrivateTopics

\* The subscriptions argument: with and without a private topic on
\* derivatives.
SubscriptionLists(ct) ==
    IF ct = "derivatives" THEN {<<"t1">>, <<"t1", "t2">>} ELSE {<<"t1", "t2">>}

\* keys of self.handlers: topics and the reserved error key
WSKeys == Topics \cup {"error_cb"}

\* coroutine functions the caller binds
Funcs == {"f", "g"}

\* The fields a session starts with, whatever its configuration.
WSFresh ==
    [contract_type |-> "derivatives", api_key |-> None, api_secret |-> None,
     subscriptions |-> <<>>, restart_on_error |-> FALSE, handle_error |-> FALSE,
     handlers |-> [t \in WSKeys |-> None], bindings |-> [t \in WSKeys |-> None],
     exited |-> FALSE, sock |-> None, subscribed |-> <<>>,
     pc |-> "idle", retries |-> 0, subi |-> 0, pending |-> <<>>,
     exc |-> None, log |-> <<>>,
     xpc |-> "idle", running |-> None, frame |-> <<>>, handled |-> <<>>,
     cb_calls |-> 0, auth_ok |-> FALSE, heartbeats |-> 0]

\* No spot stream has been subscribed to.
SpotFresh ==
    [pc |-> "idle", stream |-> None, desc |-> None, bound |-> None,
     msg |-> None, emitted |-> None, recorded |-> None, subscribed |-> <<>>]

WSIdle == ws = WSFresh /\ st = SpotFresh

\* WebSocket.__init__ (the argument combinations it does not reject)
WSInit ==
    \E ct \in ContractTypes, k \in {None, "key"}, sk \in {None, "secret"},
       r \in BOOLEAN, cb \in {None, "f"} :
      \E subs \in SubscriptionLists(ct) :
        /\ ~(ct = "spot_public" /\ k # None)
        /\ ~(/\ ct = "derivatives"
              /\ \E i \in 1..Len(subs) : subs[i] \in PrivateTopics
              /\ k = None)
        /\ st = SpotFresh
        /\ ws = [WSFresh EXCEPT
                    !.contract_type = ct, !.api_key = k, !.api_secret = sk,
                    !.subscriptions = subs,
                    !.restart_on_error = r, !.handle_error = r,
                    !.handlers = [t \in WSKeys |-> IF t = "error_cb" THEN cb ELSE None],
                    !.bindings = [t \in WSKeys |-> IF t = "error_cb" THEN cb ELSE None]]

WSHasKeys(w) == w.api_key # None /\ w.api_secret # None

Logged(w, step) ==
    IF w.log # <<>> /\ w.log[Len(w.log)] = step THEN w.log ELSE Append(w.log, step)

\* WebSocket._reset as it would be if it rebuilt the handlers dictionary too.
ResetClearingHandlers(w) ==
    [w EXCEPT !.exited = FALSE, !.sock = None, !.subscribed = <<>>,
              !.handlers = [t \in WSKeys |-> None],
              !.log = Logged(w, "reset")]

\* WebSocket._reset
Reset(w) ==
    [w EXCEPT !.exited = FALSE, !.sock = None, !.subscribed = <<>>,
              !.log = Logged(w, "reset")]

\* WebSocket.bind as it would be if an existing entry were kept (setdefault).
BindKeepingFirst ==
    /\ \E t \in WSKeys, f \in Funcs :
        ws' = [ws EXCEPT !.handlers[t] = IF ws.handlers[t] = None THEN f ELSE ws.handlers[t],
                         !.bindings[t] = f]
    /\ UNCHANGED <<httpVars, bulkVars, st>>

\* WebSocket.bind (func is a coroutine function)
Bind ==
    /\ \E t \in WSKeys, f \in Funcs :
        ws' = [ws EXCEPT !.handlers[t] = f, !.bindings[t] = f]
    /\ UNCHANGED <<httpVars, bulkVars, st>>

\* WebSocket.unbind of a bound topic
Unbind ==
    /\ \E t \in WSKeys :
        /\ ws.handlers[t] # None
        /\ ws' = [ws EXCEPT !.handlers[t] = None, !.bindings[t] = None]
    /\ UNCHANGED <<httpVars, bulkVars, st>>

\* run_forever is started.
RunForever ==
    /\ ws.pc = "idle"
    /\ ws' = [ws EXCEPT !.pc = "loop"]
    /\ UNCHANGED <<httpVars, bulkVars, st>>

\* An exception no except clause of run_forever names.  The finally clause
\* still runs: with exited set it awaits _on_close and breaks, which discards
\* the exception; otherwise the exception leaves run_forever.
Uncaught(w, name) ==
    IF w.exited
    THEN IF w.sock # None
         THEN [w EXCEPT !.pc = "on_close", !.running = None]
         ELSE [w EXCEPT !.pc = "done", !.running = None]
    ELSE [w EXCEPT !.pc = "raised", !.exc = name, !.running = None]

\* The coroutine is about to call self.ws.send_json: AttributeError when
\* self.ws is None, ConnectionResetError on a socket that is being closed.
SendOn(w) ==
    IF w.sock = None THEN Uncaught(w, "AttributeError")
    ELSE IF w.sock = "closing" THEN Uncaught(w, "ConnectionResetError")
    ELSE w

\* The coroutine is about to call self.ws.receive: AttributeError when
\* self.ws is None.
ReceiveOn(w) ==
    IF w.sock = None THEN Uncaught(w, "AttributeError") ELSE w

\* run_forever reaches _dispatch: on spot_public asyncio.gather makes a task
\* of _dispatch() and one of _heartbeat(); _dispatch calls self.ws.receive().
StartDispatch(w) ==
    ReceiveOn([w EXCEPT !.pc = "receive",
                        !.heartbeats = IF w.contract_type = "spot_public"
                                       THEN w.heartbeats + 1 ELSE w.heartbeats])

\* There is room for one more _heartbeat task.
RoomForHeartbeat(w) ==
    w.contract_type = "spot_public" => w.heartbeats < MaxHeartbeats

\* run_forever is inside asyncio.gather(_dispatch(), _heartbeat()).
InGather(w) == w.contract_type = "spot_public" /\ w.pc \in {"receive", "handler"}

\* The _heartbeat tasks of earlier gather calls that are still alive.
StaleHeartbeats(w) == w.heartbeats - (IF InGather(w) THEN 1 ELSE 0)

\* `while not self.exited`: leave, or _connect when there is no socket, or
\* go straight to _dispatch.
LoopTop ==
    /\ ws.pc = "loop"
    /\ (~ws.exited /\ ws.sock # None) => RoomForHeartbeat(ws)
    /\ ws' = IF ws.exited THEN [ws EXCEPT !.pc = "done"]
             ELSE IF ws.sock = None
                  THEN [ws EXCEPT !.pc = "ws_connect", !.retries = ConnectRetries]
                  ELSE StartDispatch(ws)
    /\ UNCHANGED <<httpVars, bulkVars, st>>

\* EnterSubscribe as it would be if _subscribe recorded the topics of
\* spot_private itself.
EnterSubscribeRecordingTopics(w) ==
    IF w.contract_type = "spot_public"
    THEN SendOn([w EXCEPT !.pc = "subscribe_send", !.subi = 1])
    ELSE IF w.contract_type = "derivatives"
    THEN SendOn([w EXCEPT !.pc = "subscribe_send", !.subi = Len(w.subscriptions)])
    ELSE StartDispatch([w EXCEPT !.log = Logged(w, "subscribe"),
                            !.subscribed = w.subscriptions])

\* _subscribe is entered: spot_public sends one frame per subscription,
\* derivatives one frame with all of them, spot_private none.
EnterSubscribe(w) ==
    IF w.contract_type = "spot_public"
    THEN SendOn([w EXCEPT !.pc = "subscribe_send", !.subi = 1])
    ELSE IF w.contract_type = "derivatives"
    THEN SendOn([w EXCEPT !.pc = "subscribe_send", !.subi = Len(w.subscriptions)])
    ELSE StartDispatch([w EXCEPT !.log = Logged(w, "subscribe")])

\* _connect after the handshake loop, as it would be without the _auth call.
AfterHandshakeNoAuth(w) == EnterSubscribe(w)

\* _connect after the handshake loop: _auth when both credentials are set,
\* then _subscribe.
AfterHandshake(w) ==
    IF WSHasKeys(w) THEN [w EXCEPT !.pc = "auth_send"] ELSE EnterSubscribe(w)

\* session.ws_connect succeeds: self.ws is the new socket.  (retries is a
\* local of _connect, subi the loop position of _subscribe; both are zero
\* outside their function.)
ConnectOK ==
    /\ ws.pc = "ws_connect"
    /\ ws' = AfterHandshake([ws EXCEPT !.sock = "open", !.retries = 0,
                                       !.auth_ok = FALSE,
                                       !.log = Logged(ws, "connect")])
    /\ UNCHANGED <<httpVars, bulkVars, st>>

\* ConnectFail as it would be if _connect gave up one attempt early.
ConnectFailRaisingEarly ==
    /\ ws.pc = "ws_connect"
    /\ ws' = IF ws.retries - 1 <= 1
             THEN [ws EXCEPT !.retries = 0, !.pc = "on_error",
                             !.exc = "WebSocketException", !.log = <<"connect_error">>,
                             !.cb_calls = 0]
             ELSE [ws EXCEPT !.retries = ws.retries - 1, !.pc = "connect_sleep"]
    /\ UNCHANGED <<httpVars, bulkVars, st>>

\* session.ws_connect raises WSServerHandshakeError or ClientConnectorError:
\* one retry less; WebSocketException once none is left, caught by
\* run_forever, which enters _on_error.
ConnectFail ==
    /\ ws.pc = "ws_connect"
    /\ ws' = IF ws.retries - 1 <= 0
             THEN [ws EXCEPT !.retries = 0, !.pc = "on_error",
                             !.exc = "WebSocketException", !.log = <<"connect_error">>,
                             !.cb_calls = 0]
             ELSE [ws EXCEPT !.retries = ws.retries - 1, !.pc = "connect_sleep"]
    /\ UNCHANGED <<httpVars, bulkVars, st>>

\* asyncio.sleep(1) between handshake attempts is over.
ConnectSleepDone ==
    /\ ws.pc = "connect_sleep"
    /\ ws' = [ws EXCEPT !.pc = "ws_connect"]
    /\ UNCHANGED <<httpVars, bulkVars, st>>

\* _auth: the auth frame is sent.
AuthSent ==
    /\ ws.pc = "auth_send"
    /\ ws' = EnterSubscribe([ws EXCEPT !.log = Logged(ws, "auth")])
    /\ UNCHANGED <<httpVars, bulkVars, st>>

\* _subscribe: a subscribe frame is sent.
SubscribeSent ==
    /\ ws.pc = "subscribe_send"
    /\ ws.subi >= Len(ws.subscriptions) => RoomForHeartbeat(ws)
    /\ ws' = IF ws.subi < Len(ws.subscriptions)
             THEN SendOn([ws EXCEPT !.subi = ws.subi + 1])
             ELSE StartDispatch([ws EXCEPT !.subi = 0,
                                           !.log = Logged(ws, "subscribe")])
    /\ UNCHANGED <<httpVars, bulkVars, st>>

\* The consumer emits the next event of the frame: _emit awaits
\* self.handlers[topic](msg); for a topic without an entry the lookup raises
\* KeyError, which no except clause of run_forever names.  With no event
\* left the consumer returns and _dispatch calls self.ws.receive() again.
Emit(w) ==
    IF w.pending = <<>>
    THEN ReceiveOn([w EXCEPT !.pc = "receive", !.running = None,
                              !.frame = <<>>, !.handled = <<>>])
    ELSE IF w.handlers[Head(w.pending)] # None
         THEN [w EXCEPT !.pc = "handler", !.running = w.handlers[Head(w.pending)],
                        !.log = Logged(w, "dispatch")]
         ELSE Uncaught(w, "KeyError")

\* The strings a data message can carry as its topic (derivatives: the value
\* of 'topic') or event type (spot_private: the value of 'e'): any string,
\* the reserved key included.  On spot_public the topic handed to _emit is
\* the result of spot_topic, which ends in V1 or V2 and a symbol.
TopicStrings(w) ==
    IF w.contract_type = "spot_public" THEN Topics ELSE WSKeys

\* A TEXT frame with data: one topic (derivatives, spot_public) or a list of
\* events, each with its own topic (spot_private).
DataFrames(w) ==
    IF w.contract_type = "spot_private"
    THEN {<<t>> : t \in TopicStrings(w)}
            \cup {<<t, u>> : t \in TopicStrings(w), u \in TopicStrings(w)}
    ELSE {<<t>> : t \in TopicStrings(w)}

\* _dispatch is waiting in receive() on a socket nobody is closing.
Receiving == ws.pc = "receive" /\ ws.sock = "open"

RecvData ==
    /\ Receiving
    /\ \E frame \in DataFrames(ws) :
        ws' = Emit([ws EXCEPT !.pending = frame, !.frame = frame, !.handled = <<>>])
    /\ UNCHANGED <<httpVars, bulkVars, st>>

\* HandlerDone as it would be if the consumer stopped after the first event.
HandlerDoneDroppingRest ==
    /\ ws.pc = "handler"
    /\ ws' = Emit([ws EXCEPT !.pending = <<>>,
                             !.handled = Append(ws.handled, Head(ws.pending))])
    /\ UNCHANGED <<httpVars, bulkVars, st>>

\* The awaited handler returns: the next event of the frame, or receive().
HandlerDone ==
    /\ ws.pc = "handler"
    /\ ws' = Emit([ws EXCEPT !.pending = Tail(ws.pending),
                             !.handled = Append(ws.handled, Head(ws.pending))])
    /\ UNCHANGED <<httpVars, bulkVars, st>>

\* A subscription acknowledgement (derivatives: success with
\* request.op = subscribe; spot_public: msg = Success): _on_subscribe.
RecvSubscribeAck ==
    /\ Receiving
    /\ ws.contract_type \in {"derivatives", "spot_public"}
    /\ Len(ws.subscribed) < MaxSubscribed
    /\ \E t \in Topics : ws' = [ws EXCEPT !.subscribed = Append(ws.subscribed, t)]
    /\ UNCHANGED <<httpVars, bulkVars, st>>

\* spot_private {"auth": "success"}: every subscription is recorded.
RecvAuthSuccess ==
    /\ Receiving
    /\ ws.contract_type = "spot_private"
    /\ Len(ws.subscribed) < MaxSubscribed
    /\ ws' = [ws EXCEPT !.subscribed = ws.subscribed \o ws.subscriptions,
                        !.auth_ok = TRUE]
    /\ UNCHANGED <<httpVars, bulkVars, st>>

\* A subscribe failure reply (derivatives, spot_public), an ERROR message or
\* a CLOSE/CLOSING/CLOSED message (the only thing receive() returns on a
\* socket that exit() is closing): WebSocketException, caught by run_forever.
RecvError ==
    /\ ws.pc = "receive"
    /\ ws.sock # None
    /\ ws' = [ws EXCEPT !.pc = "on_error", !.exc = "WebSocketException",
                        !.log = <<"recv_error">>, !.cb_calls = 0]
    /\ UNCHANGED <<httpVars, bulkVars, st>>

\* RecvAuthFailure as it would be if run_forever left handle_error alone.
RecvAuthFailureKeepingRestart ==
    /\ Receiving
    /\ ws.contract_type \in {"derivatives", "spot_private"}
    /\ ws' = [ws EXCEPT !.pc = "on_error", !.exc = "PermissionError",
                        !.log = <<"auth_error">>, !.cb_calls = 0]
    /\ UNCHANGED <<httpVars, bulkVars, st>>

\* An auth failure reply (derivatives, spot_private): PermissionError,
\* caught by run_forever, which clears handle_error.
RecvAuthFailure ==
    /\ Receiving
    /\ ws.contract_type \in {"derivatives", "spot_private"}
    /\ ws' = [ws EXCEPT !.pc = "on_error", !.exc = "PermissionError",
                        !.handle_error = FALSE, !.log = <<"auth_error">>,
                        !.cb_calls = 0]
    /\ UNCHANGED <<httpVars, bulkVars, st>>

\* A TEXT frame that is not JSON: json.loads raises JSONDecodeError.
RecvMalformed ==
    /\ Receiving
    /\ ws' = Uncaught(ws, "JSONDecodeError")
    /\ UNCHANGED <<httpVars, bulkVars, st>>

\* The finally clause of run_forever after a caught exception: _on_close and
\* break when exited, else on to asyncio.sleep(0.01).  (The source indents
\* its `finally:` line one column short of the try statement; it is read as
\* that statement's finally clause.)
Finally(w) ==
    IF w.exited THEN [w EXCEPT !.pc = "done", !.sock = None] ELSE [w EXCEPT !.pc = "loop_sleep"]

\* OnErrorTail as it would be if _on_error called _reset whatever
\* handle_error is.
OnErrorTailAlwaysReset(w) ==
    Finally(IF TRUE THEN Reset([w EXCEPT !.running = None, !.exc = None])
                              ELSE [w EXCEPT !.running = None, !.exc = None])

\* _on_error after exit() and the error callback: _reset when handle_error.
OnErrorTail(w) ==
    Finally(IF w.handle_error THEN Reset([w EXCEPT !.running = None, !.exc = None])
                              ELSE [w EXCEPT !.running = None, !.exc = None])

\* OnErrorExit as it would be if _on_error did not look for error_cb.
OnErrorExitWithoutCallback ==
    /\ ws.pc = "on_error"
    /\ LET w == [ws EXCEPT !.exited = TRUE, !.sock = None,
                           !.log = IF ws.sock # None THEN Logged(ws, "close") ELSE ws.log]
       IN ws' = IF FALSE
                THEN [w EXCEPT !.pc = "error_cb", !.running = w.handlers["error_cb"],
                               !.cb_calls = w.cb_calls + 1]
                ELSE OnErrorTail(w)
    /\ UNCHANGED <<httpVars, bulkVars, st>>

\* _on_error: exit() closes the socket if there is one, sets exited and
\* clears self.ws; then the error callback is awaited if one is bound.
OnErrorExit ==
    /\ ws.pc = "on_error"
    /\ LET w == [ws EXCEPT !.exited = TRUE, !.sock = None,
                           !.log = IF ws.sock # None THEN Logged(ws, "close") ELSE ws.log]
       IN ws' = IF w.handlers["error_cb"] # None
                THEN [w EXCEPT !.pc = "error_cb", !.running = w.handlers["error_cb"],
                               !.cb_calls = w.cb_calls + 1]
                ELSE OnErrorTail(w)
    /\ UNCHANGED <<httpVars, bulkVars, st>>

\* The error callback returns.
ErrorCbDone ==
    /\ ws.pc = "error_cb"
    /\ ws' = OnErrorTail(ws)
    /\ UNCHANGED <<httpVars, bulkVars, st>>

\* asyncio.sleep(0.01) at the bottom of the loop is over.
LoopSleepDone ==
    /\ ws.pc = "loop_sleep"
    /\ ws' = [ws EXCEPT !.pc = "loop", !.cb_calls = 0]
    /\ UNCHANGED <<httpVars, bulkVars, st>>

\* CancelInTry as it would be if the finally clause did not run _on_close.
CancelInTryNoClose ==
    /\ ws.pc \in {"ws_connect", "connect_sleep", "auth_send", "subscribe_send",
                  "receive", "handler"}
    /\ ws' = [ws EXCEPT !.exited = TRUE, !.exc = "CancelledError",
                        !.running = None, !.log = <<"cancel">>, !.pc = "done",
                        !.heartbeats = StaleHeartbeats(ws)]
    /\ UNCHANGED <<httpVars, bulkVars, st>>

\* The run_forever task is cancelled while it waits inside the try block:
\* except CancelledError sets exited and breaks, and the finally clause runs
\* _on_close, whose exit() awaits ws.close() when there is a socket.  A
\* cancelled gather cancels the two tasks it made.
CancelInTry ==
    /\ ws.pc \in {"ws_connect", "connect_sleep", "auth_send", "subscribe_send",
                  "receive", "handler"}
    /\ ws' = IF ws.sock # None
             THEN [ws EXCEPT !.exited = TRUE, !.exc = "CancelledError",
                             !.running = None, !.log = <<"cancel">>, !.pc = "on_close",
                             !.heartbeats = StaleHeartbeats(ws)]
             ELSE [ws EXCEPT !.exited = TRUE, !.exc = "CancelledError",
                             !.running = None, !.log = <<"cancel">>, !.pc = "done",
                             !.heartbeats = StaleHeartbeats(ws)]
    /\ UNCHANGED <<httpVars, bulkVars, st>>

\* _on_close: ws.close() is over; exit() sets exited and clears self.ws.
OnCloseDone ==
    /\ ws.pc = "on_close"
    /\ ws' = [ws EXCEPT !.exited = TRUE, !.sock = None, !.pc = "done",
                        !.log = Logged(ws, "close")]
    /\ UNCHANGED <<httpVars, bulkVars, st>>

\* The task is cancelled outside the try block's reach: inside _on_error
\* (CancelledError leaves the except clause; the finally clause runs
\* _on_close and breaks only when exited is already set) or in the sleep at
\* the bottom of the loop.
CancelOutsideTry ==
    /\ ws.pc \in {"on_error", "error_cb", "loop_sleep"}
    /\ ws' = IF ws.pc # "loop_sleep" /\ ws.exited
             THEN IF ws.sock # None
                  THEN [ws EXCEPT !.exc = "CancelledError", !.running = None,
                                  !.log = <<"cancel_outside">>, !.pc = "on_close"]
                  ELSE [ws EXCEPT !.exc = "CancelledError", !.running = None,
                                  !.log = <<"cancel_outside">>, !.pc = "done"]
             ELSE [ws EXCEPT !.exc = "CancelledError", !.running = None,
                             !.log = <<"cancel_outside">>, !.pc = "raised"]
    /\ UNCHANGED <<httpVars, bulkVars, st>>

\* The caller calls exit() while run_forever is suspended.  Without a socket
\* it sets exited and clears self.ws at once.  With one it awaits ws.close();
\* close() first breaks a pending receive(), which returns the closing
\* message, so a _dispatch waiting in receive() raises WebSocketException.
CallerExit ==
    /\ ws.xpc = "idle"
    /\ ws.pc \notin {"idle", "done", "raised"}
    /\ ws' = IF ws.sock = None
             THEN [ws EXCEPT !.exited = TRUE, !.xpc = "done"]
             ELSE IF ws.pc = "receive"
             THEN [ws EXCEPT !.xpc = "closing", !.sock = "closing",
                             !.pc = "on_error", !.exc = "WebSocketException",
                             !.log = <<"recv_error">>, !.cb_calls = 0]
             ELSE [ws EXCEPT !.xpc = "closing", !.sock = "closing"]
    /\ UNCHANGED <<httpVars, bulkVars, st>>

\* The caller's exit() resumes after ws.close(): exited = True, ws = None.
CallerExitDone ==
    /\ ws.xpc = "closing"
    /\ ws' = [ws EXCEPT !.exited = TRUE, !.sock = None, !.xpc = "done"]
    /\ UNCHANGED <<httpVars, bulkVars, st>>

\* A _heartbeat task that gather left behind (gather hands the first
\* exception to run_forever and cancels nothing) wakes from its sleep when
\* self.ws is None: self.ws._send_heartbeat() raises AttributeError, which
\* ends the task.  While self.ws is a socket the task pings it and sleeps
\* again, which changes nothing here.  (The task of the running gather is
\* left out: it finds self.ws None only after the caller's exit(), and
\* _dispatch then meets the same AttributeError at its next receive().)
HeartbeatFails ==
    /\ StaleHeartbeats(ws) > 0
    /\ ws.sock = None
    /\ ws' = [ws EXCEPT !.heartbeats = ws.heartbeats - 1]
    /\ UNCHANGED <<httpVars, bulkVars, st>>

WSNext ==
    \/ Bind
    \/ Unbind
    \/ RunForever
    \/ LoopTop
    \/ ConnectOK
    \/ ConnectFail
    \/ ConnectSleepDone
    \/ AuthSent
    \/ SubscribeSent
    \/ RecvData
    \/ HandlerDone
    \/ RecvSubscribeAck
    \/ RecvAuthSuccess
    \/ RecvError
    \/ RecvAuthFailure
    \/ RecvMalformed
    \/ OnErrorExit
    \/ ErrorCbDone
    \/ LoopSleepDone
    \/ CancelInTry
    \/ OnCloseDone
    \/ CancelOutsideTry
    \/ CallerExit
    \/ CallerExitDone
    \/ HeartbeatFails

(***************************************************************************)
(* Properties of the streaming session, checked under SpecWS.              *)
(***************************************************************************)

\* C8: a data message whose topic has no bound handler is dropped; it never
\* makes an exception leave run_forever.
C8_UnboundTopicDropped ==
    ~(ws.pc = "raised" /\ ws.exc = "KeyError")

\* C9: the handler registry is exactly what the caller's bind and unbind
\* calls made it; errors, resets and reconnects leave it alone.
C9_HandlersSurviveReconnect ==
    ws.handlers = ws.bindings

\* C9 witness: the session is receiving again after an error and a
\* reconnect, with a handler bound for a topic.
C9_Witness ==
    /\ ws.pc = "receive"
    /\ ws.log # <<>>
    /\ Head(ws.log) = "recv_error"
    /\ \E k \in 1..Len(ws.log) : ws.log[k] = "reset"
    /\ ws.handlers["t1"] = "g"
    /\ ws.handlers["error_cb"] = "f"

IsPrefix(p, q) == Len(p) <= Len(q) /\ \A k \in 1..Len(p) : p[k] = q[k]

\* The steps wanted after an error seen by the receive loop.
StepsAfterRecvError(w) ==
    <<"recv_error", "close", "reset", "connect">>
        \o (IF WSHasKeys(w) THEN <<"auth">> ELSE <<>>)
        \o <<"subscribe", "dispatch">>

\* C10: after the receive loop saw a transport error or close frame, the
\* steps taken are close, reset, connect, authenticate (when both credentials
\* are set), subscribe, in that order, and only then is a frame received and
\* dispatched; with reconnection enabled run_forever does not return.  (The
\* case is the session the caller leaves running: no exit() call of theirs.)
C10_ReconnectBeforeDispatch ==
    (ws.xpc = "idle" /\ ws.log # <<>> /\ Head(ws.log) = "recv_error") =>
        /\ IsPrefix(ws.log, StepsAfterRecvError(ws))
        /\ ws.pc \in {"receive", "handler"} =>
              \E k \in 1..Len(ws.log) : ws.log[k] = "subscribe"
        /\ ws.handle_error => ws.pc # "done"

\* C10 witness: a handler runs on the connection made after the error, and
\* the session authenticated on it.
C10_Witness ==
    /\ ws.pc = "handler"
    /\ ws.xpc = "idle"
    /\ WSHasKeys(ws)
    /\ ws.log = StepsAfterRecvError(ws)

\* C11: after the server refused the authentication, reconnection is off for
\* good, whatever restart_on_error was configured: the only steps left are
\* closing the transport and the error callback, no reset and no connect
\* follows, and run_forever ends with the transport closed.
C11_AuthFailureEndsSession ==
    (ws.log # <<>> /\ Head(ws.log) = "auth_error") =>
        /\ ~ws.handle_error
        /\ ws.pc \in {"on_error", "error_cb", "done"}
        /\ ws.pc = "done" => ws.sock = None /\ ws.exited
        /\ \A k \in 1..Len(ws.log) : ws.log[k] \notin {"reset", "connect"}

\* C11 witness: a session configured to restart on errors has ended after an
\* authentication failure.
C11_Witness ==
    /\ ws.log # <<>>
    /\ Head(ws.log) = "auth_error"
    /\ ws.restart_on_error
    /\ ws.pc = "done"

\* C12: a streaming authentication failure that ended run_forever was either
\* delivered to the error callback or raised out of run_forever.
C12_AuthFailureSurfaced ==
    (ws.log # <<>> /\ Head(ws.log) = "auth_error" /\ ws.pc \in {"done", "raised"}) =>
        \/ ws.cb_calls > 0
        \/ ws.pc = "raised" /\ ws.exc = "PermissionError"

\* C13: after the run_forever task was cancelled inside the try block
\* (connecting, receiving or dispatching), exited is set, the only step left
\* is closing the transport, run_forever ends with no transport, and no
\* connect follows, whatever restart_on_error is.
C13_CancelEndsSession ==
    (ws.log # <<>> /\ Head(ws.log) = "cancel") =>
        /\ ws.exited
        /\ ws.pc \in {"on_close", "done"}
        /\ ws.pc = "done" => ws.sock = None
        /\ \A k \in 1..Len(ws.log) : ws.log[k] \notin {"reset", "connect"}

\* C13 witness: a session with reconnection enabled was cancelled while it
\* dispatched a frame, closed its transport and ended.
C13_Witness ==
    /\ ws.log = <<"cancel", "close">>
    /\ ws.handle_error
    /\ ws.pending # <<>>
    /\ ws.pc = "done"

\* C14: once the caller's exit() has returned the session is exited and stays
\* so: exited remains set and there is no transport any more.
C14_ExitIsFinal ==
    ws.xpc = "done" => ws.exited /\ ws.sock = None

\* C15: the events of a frame are handled one at a time in the order of the
\* frame, a handler runs for the event in hand, nothing is received while
\* events are pending, and receive is called again only once every event of
\* the frame has been handled.
C15_HandlersInArrivalOrder ==
    /\ [](/\ ws.pc = "handler" =>
               /\ ws.pending # <<>>
               /\ ws.running # None
               /\ ws.handled \o ws.pending = ws.frame
          /\ ws.pc = "receive" => ws.pending = <<>> /\ ws.running = None)
    /\ [][(ws.pc = "handler" /\ ws'.pc = "receive") =>
               Append(ws.handled, Head(ws.pending)) = ws.frame]_vars

\* C15 witness: the handler for the second event of a private list frame
\* runs after the handler for the first has returned.
C15_Witness ==
    /\ ws.pc = "handler"
    /\ ws.frame = <<"t2", "t1">>
    /\ ws.handled = <<"t2">>

\* C16: whenever a handler is invoked (for a data event or for an error), it
\* is the function of the last bind for that key, and that bind was not
\* followed by an unbind.
C16_LastBindingInvoked ==
    [][(/\ ws'.pc \in {"handler", "error_cb"}
        /\ ws.pc # ws'.pc \/ ws.handled # ws'.handled) =>
            LET key == IF ws'.pc = "error_cb" THEN "error_cb" ELSE Head(ws'.pending)
            IN /\ ws.bindings[key] # None
               /\ ws'.running = ws.bindings[key]]_vars

\* C16 witness: a handler bound over an earlier one is running for its topic.
C16_Witness ==
    /\ ws.pc = "handler"
    /\ ws.running = "g"
    /\ ws.bindings[Head(ws.pending)] = "g"
    /\ ws.handled # <<>>

\* The receive loop or _connect raised WebSocketException, and run_forever
\* caught it.
TransportErrorInHand ==
    ws.log # <<>> /\ Head(ws.log) \in {"recv_error", "connect_error"}

\* C26: one _connect makes at most 10 handshake attempts (the attempt in
\* progress is number 11 - retries), sleeps between two attempts, raises
\* WebSocketException when and only when the 10th has failed, and an auth
\* or subscribe frame is sent only after a handshake succeeded.
C26_BoundedHandshakes ==
    /\ [](/\ ws.pc = "ws_connect" => ws.retries \in 1..ConnectRetries
          /\ ws.pc = "connect_sleep" => ws.retries \in 1..(ConnectRetries - 1)
          /\ ws.pc \in {"auth_send", "subscribe_send"} =>
                \E k \in 1..Len(ws.log) : ws.log[k] = "connect"
          /\ \A k \in 1..Len(ws.log) :
                ws.log[k] \in {"auth", "subscribe"} =>
                    \E j \in 1..(k - 1) : ws.log[j] = "connect")
    /\ [][ws.pc = "ws_connect" =>
            /\ ws'.pc = "on_error" =>
                  ws.retries = 1 /\ ws'.exc = "WebSocketException"
            /\ ws'.pc = "connect_sleep" =>
                  ws.retries > 1 /\ ws'.retries = ws.retries - 1
            /\ ws'.pc = "ws_connect" => ws'.retries = ws.retries]_vars

\* C26 witness: the 10th handshake attempt has failed and _connect raised.
C26_Witness ==
    /\ ws.pc = "on_error"
    /\ ws.log = <<"connect_error">>
    /\ ws.exc = "WebSocketException"
    /\ ws.sock = None

\* C27: once _connect has used up its handshake attempts the session is
\* over: the only steps left are those of _on_error, and run_forever ends by
\* raising the WebSocketException to its caller.
C27_ConnectExhaustionFatal ==
    (ws.log # <<>> /\ Head(ws.log) = "connect_error") =>
        \/ ws.pc \in {"on_error", "error_cb"}
        \/ ws.pc = "raised" /\ ws.exc = "WebSocketException"

\* C28: no protocol error leaves run_forever: neither the decode error of a
\* malformed payload nor the WebSocketException of a close or error frame.
C28_ProtocolErrorsHandled ==
    ws.pc = "raised" => ws.exc \notin {"JSONDecodeError", "WebSocketException"}

\* C29: with restart_on_error false, after a transport or protocol error the
\* only steps left are closing the transport and the error callback, no
\* reset and no connect follows, and run_forever ends with no transport.
C29_NoRestartEndsSession ==
    (TransportErrorInHand /\ ~ws.restart_on_error) =>
        /\ ws.pc \in {"on_error", "error_cb", "done"}
        /\ ws.pc = "done" => ws.sock = None /\ ws.exited
        /\ \A k \in 1..Len(ws.log) : ws.log[k] \notin {"reset", "connect"}

\* C29 witness: a session configured not to restart has closed its
\* transport after an error in the receive loop and ended.
C29_Witness ==
    /\ ws.log = <<"recv_error", "close">>
    /\ ~ws.restart_on_error
    /\ ws.xpc = "idle"
    /\ ws.pc = "done"

\* C30: when _on_error has closed the transport for an error and a handler
\* is bound under error_cb, the handler is invoked next, with that error,
\* and it is the one invocation for that error; so it has happened before
\* the loop sleeps, connects again or ends.
C30_ErrorHandlerOnce ==
    /\ [](/\ ws.cb_calls <= 1
          /\ ws.pc = "error_cb" =>
                /\ ws.cb_calls = 1
                /\ ws.running # None
                /\ ws.exc \in {"WebSocketException", "PermissionError"})
    /\ [][(/\ ws.pc = "on_error"
           /\ ws'.pc # "on_error"
           /\ Head(ws'.log) # "cancel_outside"
           /\ ws.handlers["error_cb"] # None) =>
              /\ ws'.pc = "error_cb"
              /\ ws'.cb_calls = 1
              /\ ws'.running = ws.handlers["error_cb"]
              /\ ws'.exc = ws.exc]_vars
    /\ [][(ws.pc = "error_cb" /\ ws'.pc # "error_cb") => ws'.cb_calls = 1]_vars

\* C30 witness: the error handler runs for an authentication failure.
C30_Witness ==
    /\ ws.pc = "error_cb"
    /\ ws.exc = "PermissionError"
    /\ ws.cb_calls = 1
    /\ ws.running = "f"

\* C31: the handler bound under error_cb is awaited by _on_error only: no
\* data message, whatever topic or event type it carries, makes the consumer
\* hand it to that handler.
C31_ErrorHandlerOnlyForErrors ==
    ws.pc = "handler" => Head(ws.pending) # "error_cb"

\* C36: when run_forever has ended, by returning or by an exception, in a
\* session whose caller did not call exit() itself, the socket has been
\* closed and self.ws is cleared.
C36_NoSocketLeftBehind ==
    (ws.pc \in {"done", "raised"} /\ ws.xpc = "idle") => ws.sock = None

\* An auth frame was sent on the socket the session holds: after the last
\* handshake.
AuthFrameSent(w) ==
    \E k \in 1..Len(w.log) :
        w.log[k] = "auth" /\ \A j \in (k + 1)..Len(w.log) : w.log[j] # "connect"

\* C32: a subscribe frame that names a private topic is sent, and a private
\* topic the session asked for is recorded as subscribed, only on a socket on
\* which an auth frame was sent before.
C32_PrivateNeedsAuth ==
    /\ (/\ ws.pc = "subscribe_send"
        /\ \E i \in 1..Len(ws.subscriptions) : IsPrivate(ws, ws.subscriptions[i]))
          => AuthFrameSent(ws)
    /\ (/\ ws.pc \in {"receive", "handler"}
        /\ \E i \in 1..Len(ws.subscribed), j \in 1..Len(ws.subscriptions) :
              ws.subscribed[i] = ws.subscriptions[j] /\ IsPrivate(ws, ws.subscribed[i]))
          => AuthFrameSent(ws)

C37_OneHeartbeat ==
    ws.heartbeats <= 1

(***************************************************************************)
(* Spot public topic names: WebSocket.spot_topic, applied to subscription  *)
(* descriptors (_subscribe) and to inbound messages (_consume_spot_public).*)
(* A JSON object is a function from its keys; a stream is the topic name,  *)
(* the API version (v1 objects carry a top-level symbol, v2 objects carry  *)
(* it in params), what params holds, and the symbol.                       *)
(***************************************************************************)

SpotTopicNames == {"depth", "trade", "kline", "mergedDepth"}
SpotSymbols == {"ETHUSDT", "BTCUSD"}
ParamKinds == {"absent", "binary", "klineType", "dumpScale"}

\* The streams a caller can subscribe to (a v2 object always has params).
Streams ==
    {s \in [topic : SpotTopicNames, v1 : BOOLEAN, param : ParamKinds,
            symbol : SpotSymbols] : s.v1 \/ s.param # "absent"}

\* The params object of a stream: klineType is a string, dumpScale a number.
ParamsOf(s, binary) ==
    ("binary" :> binary)
        @@ (IF s.v1 THEN <<>> ELSE ("symbol" :> s.symbol))
        @@ (IF s.param = "klineType" THEN ("klineType" :> "1m")
            ELSE IF s.param = "dumpScale" THEN ("dumpScale" :> 1)
            ELSE <<>>)

\* The subscription descriptor the caller passes for a stream.
SubscriptionOf(s) ==
    ("topic" :> s.topic) @@ ("event" :> "sub")
        @@ (IF s.v1 THEN ("symbol" :> s.symbol) ELSE <<>>)
        @@ (IF s.param = "absent" THEN <<>> ELSE ("params" :> ParamsOf(s, FALSE)))

\* A data message the venue sends for a stream (f: first message or not).
MessageOf(s, f) ==
    ("topic" :> s.topic) @@ ("data" :> <<>>) @@ ("f" :> f)
        @@ (IF s.v1 THEN ("symbol" :> s.symbol) ELSE <<>>)
        @@ (IF s.param = "absent" THEN <<>> ELSE ("params" :> ParamsOf(s, "false")))

\* spot_topic as it would be without the params segment.
SpotTopicIgnoringParams(msg) ==
    LET version == IF "symbol" \in DOMAIN msg THEN "V1" ELSE "V2"
        symbol  == IF "symbol" \in DOMAIN msg THEN msg.symbol ELSE msg.params.symbol
    IN msg.topic \o version \o "." \o symbol

\* WebSocket.spot_topic (f-strings: a string as it is, a number in decimal)
SpotTopic(msg) ==
    LET version == IF "symbol" \in DOMAIN msg THEN "V1" ELSE "V2"
        value   == IF "params" \in DOMAIN msg
                   THEN IF "klineType" \in DOMAIN msg.params
                        THEN "." \o msg.params.klineType
                        ELSE IF "dumpScale" \in DOMAIN msg.params
                        THEN "." \o ToString(msg.params.dumpScale)
                        ELSE ""
                   ELSE ""
        symbol  == IF "symbol" \in DOMAIN msg THEN msg.symbol ELSE msg.params.symbol
    IN msg.topic \o version \o value \o "." \o symbol

\* The lookups of spot_topic all succeed (else it raises KeyError).
SpotTopicDefined(msg) ==
    /\ "topic" \in DOMAIN msg
    /\ "symbol" \in DOMAIN msg
         \/ ("params" \in DOMAIN msg /\ "symbol" \in DOMAIN msg.params)

\* The caller subscribes to a stream and binds a handler under the topic
\* spot_topic gives for the descriptor.
SpotSubscribe ==
    /\ st.pc = "idle"
    /\ \E s \in Streams :
        st' = [st EXCEPT !.pc = "subscribed", !.stream = s,
                         !.desc = SubscriptionOf(s),
                         !.bound = SpotTopic(SubscriptionOf(s))]
    /\ UNCHANGED <<httpVars, bulkVars, ws>>

\* The reply of the venue to a subscription that succeeded: the descriptor
\* with code and msg (`Spotv2 subscribe msg also has topic key`).
AckOf(s) ==
    ("code" :> "0") @@ ("msg" :> "Success") @@ SubscriptionOf(s)

\* The reply to a subscription that failed.
SubscribeErrorOf(s) ==
    ("code" :> "-10001") @@ ("desc" :> "Invalid request")

\* What the venue sends on a connection that subscribed to a stream.
SpotMessages(s) ==
    {MessageOf(s, TRUE), MessageOf(s, FALSE), AckOf(s), SubscribeErrorOf(s)}

\* _consume_spot_public as it would be if it looked for the topic key first,
\* as _consume_derivatives does.
ConsumeSpotPublicTopicFirst(msg) ==
    IF "topic" \in DOMAIN msg THEN "emit"
    ELSE IF "msg" \in DOMAIN msg /\ msg.msg = "Success" THEN "on_subscribe"
    ELSE IF "code" \in DOMAIN msg /\ msg.code # "0" THEN "raise"
    ELSE "pass"

\* _consume_spot_public: the branch a message takes.
ConsumeSpotPublic(msg) ==
    IF "msg" \in DOMAIN msg /\ msg.msg = "Success" THEN "on_subscribe"
    ELSE IF "topic" \in DOMAIN msg THEN "emit"
    ELSE IF "code" \in DOMAIN msg /\ msg.code # "0" THEN "raise"
    ELSE "pass"

\* _consume_spot_public: a success reply is recorded by _on_subscribe under
\* the topic spot_topic gives for it; a data message of the stream is emitted
\* under the topic spot_topic gives for it; an error reply raises
\* WebSocketException.
SpotReceive ==
    /\ st.pc \in {"subscribed", "acked", "emitted"}
    /\ \E msg \in SpotMessages(st.stream) :
        LET branch == ConsumeSpotPublic(msg)
        IN /\ branch \in {"on_subscribe", "emit"} => SpotTopicDefined(msg)
           /\ branch = "on_subscribe" => Len(st.subscribed) < MaxSubscribed
           /\ st' = CASE branch = "on_subscribe" ->
                           [st EXCEPT !.pc = "acked", !.msg = msg, !.emitted = None,
                                      !.recorded = SpotTopic(msg),
                                      !.subscribed = Append(st.subscribed, SpotTopic(msg))]
                      [] branch = "emit" ->
                           [st EXCEPT !.pc = "emitted", !.msg = msg,
                                      !.emitted = SpotTopic(msg), !.recorded = None]
                      [] branch = "raise" ->
                           [st EXCEPT !.pc = "raised", !.msg = msg, !.emitted = None,
                                      !.recorded = None]
                      [] OTHER -> st
    /\ UNCHANGED <<httpVars, bulkVars, ws>>

\* _consume_spot_public: a message with a topic but no symbol anywhere;
\* spot_topic raises KeyError.
SpotReceiveNoSymbol ==
    /\ st.pc \in {"subscribed", "acked", "emitted"}
    /\ LET msg == ("topic" :> st.stream.topic) @@ ("data" :> <<>>)
       IN /\ ~SpotTopicDefined(msg)
          /\ st' = [st EXCEPT !.pc = "raised", !.msg = msg, !.emitted = None,
                               !.recorded = None]
    /\ UNCHANGED <<httpVars, bulkVars, ws>>

SpotNext ==
    \/ SpotSubscribe
    \/ SpotReceive
    \/ SpotReceiveNoSymbol

\* The topic string the format
\*   topic + V1|V2 [+ "." + klineType or dumpScale] + "." + symbol
\* gives for a stream.
CanonicalTopic(s) ==
    s.topic \o (IF s.v1 THEN "V1" ELSE "V2")
            \o (IF s.param = "klineType" THEN ".1m"
                ELSE IF s.param = "dumpScale" THEN ".1" ELSE "")
            \o "." \o s.symbol

\* C17: a message of a subscribed stream is emitted under the topic the
\* subscription descriptor gave, and that topic has the documented format;
\* depth/ETHUSDT in v2 form is depthV2.ETHUSDT, trade/BTCUSD with a bare
\* symbol is tradeV1.BTCUSD.
C17_SpotTopicCanonical ==
    st.pc = "emitted" =>
        /\ st.emitted = st.bound
        /\ st.emitted = CanonicalTopic(st.stream)
        /\ (st.stream.topic = "depth" /\ ~st.stream.v1 /\ st.stream.param = "binary"
              /\ st.stream.symbol = "ETHUSDT") => st.emitted = "depthV2.ETHUSDT"
        /\ (st.stream.topic = "trade" /\ st.stream.v1 /\ st.stream.param \in {"absent", "binary"}
              /\ st.stream.symbol = "BTCUSD") => st.emitted = "tradeV1.BTCUSD"

\* C17 witness: a v2 kline message reaches the handler bound under the
\* subscription's topic.
C17_Witness ==
    /\ st.pc = "emitted"
    /\ st.bound = "klineV2.1m.ETHUSDT"
    /\ st.emitted = "klineV2.1m.ETHUSDT"

\* C34: on spot_public a message that carries msg = Success is recorded by
\* _on_subscribe under its canonical topic, as the last entry of the
\* subscribed list, and is not emitted, although it carries a topic; a
\* message with a topic and without the success marker is emitted under its
\* canonical topic and not recorded.
C34_AckBeforeTopic ==
    st.pc \in {"acked", "emitted"} =>
        IF "msg" \in DOMAIN st.msg /\ st.msg.msg = "Success"
        THEN /\ "topic" \in DOMAIN st.msg
             /\ st.emitted = None
             /\ st.recorded = CanonicalTopic(st.stream)
             /\ st.subscribed # <<>>
             /\ st.subscribed[Len(st.subscribed)] = st.recorded
        ELSE /\ "topic" \in DOMAIN st.msg
             /\ st.emitted = CanonicalTopic(st.stream)
             /\ st.recorded = None

\* C34 witness: the success reply to a v2 kline subscription, which carries
\* the topic key, has been recorded.
C34_Witness ==
    /\ st.pc = "acked"
    /\ st.msg.topic = "kline"
    /\ st.msg.msg = "Success"
    /\ st.subscribed = <<"klineV2.1m.ETHUSDT">>

InitBulk == HTTPIdle /\ BulkInit /\ WSIdle

InitSpot == HTTPIdle /\ BulkIdle /\ WSIdle

InitWS == HTTPIdle /\ BulkIdle /\ WSInit

Init == HTTPInit /\ BulkIdle /\ WSIdle

Next ==
    \/ SubmitRequest
    \/ RetriesExceeded
    \/ AuthMissingKeys
    \/ AuthNoQuery
    \/ Transmit
    \/ RecvConnError
    \/ RecvDecodeError
    \/ RecvSuccess
    \/ RecvRetryable
    \/ RecvIgnorable
    \/ RecvFatal
    \/ SleepDone

Spec == Init /\ [][Next]_vars

SpecWS == InitWS /\ [][WSNext]_vars

SpecBulk == InitBulk /\ [][BulkNext]_vars

SpecSpot == InitSpot /\ [][SpotNext]_vars

====
